---- MODULE Spec2Model ----
(***************************************************************************)
(* Model of release.py: the release-manifest builder.                      *)
(*                                                                         *)
(* A file name is a sequence of tokens (<<"Vault", ".sol">> is Vault.sol), *)
(* so that str.replace and str.endswith act on it as the code does.  A     *)
(* path is a sequence of components; a source directory is a sequence of   *)
(* directory names, an artifact path a sequence of token sequences.        *)
(***************************************************************************)
EXTENDS Integers, Sequences, FiniteSets, TLC

VARIABLES
    argv,            \* sys.argv
    markers,         \* configuration files present in the working directory
    dirs,            \* existing source directories (normalised paths)
    files,           \* existing source files: records [dir, name]
    artifacts,       \* build output on disk: artifact path -> file content
    release_dir,     \* "./release": "absent", "dir" or "file"
    out_file,        \* content of ./release/release_data.json
    clock,           \* time.time()
    pc,              \* position of the script
    roots_todo,      \* get_contract_files: root directories still to visit
    walk_stack,      \* get_contract_files: os.walk's pending directories
    contracts_files, \* the list get_contract_files builds / returned
    project_type,    \* build_release_data: project_type
    idx,             \* build_release_data: position of the for loop
    data,            \* build_release_data: data
    results,         \* what the resolver returned, one record per iteration
    writes,          \* number of times the output file was written
    exit_status,     \* process exit status (-1 while the script runs)
    commands_run     \* external commands the script has executed

vars == <<argv, markers, dirs, files, artifacts, release_dir, out_file, clock,
          pc, roots_todo, walk_stack, contracts_files, project_type, idx,
          data, results, writes, exit_status, commands_run>>

fsVars == <<markers, dirs, files, artifacts, clock>>

-----------------------------------------------------------------------------
(* Bounds of the model *)

\* time.time() is drawn from 1..MaxTime
MaxTime == 1
\* number of source files in a tree of the pipeline specification
MaxContracts == 2
\* number of artifact files present on disk
MaxArtifacts == 2
\* number of source files in a tree of the locator specification
MaxFiles == 3

-----------------------------------------------------------------------------
(* Python values *)

PyNone == [t |-> "none", s |-> "", l |-> <<>>]
PyStr(x) == [t |-> "str", s |-> x, l |-> <<>>]
PyList(x) == [t |-> "list", s |-> "", l |-> x]

\* truth value of a Python object, as `if x` and `x and y` use it
Truthy(v) ==
    CASE v.t = "none" -> FALSE
      [] v.t = "str"  -> v.s # ""
      [] v.t = "list" -> v.l # <<>>

\* str.replace(tok, "")
Replace(name, tok) == SelectSeq(name, LAMBDA x : x # tok)

\* str.endswith(tok)
EndsWith(name, tok) == Len(name) > 0 /\ name[Len(name)] = tok

\* os.path.normpath of a relative path: the "." components disappear
NormPath(p) == SelectSeq(p, LAMBDA c : c # ".")

\* all orders in which a directory listing can enumerate a finite set
RECURSIVE Perms(_)
Perms(S) ==
    IF S = {} THEN {<<>>}
    ELSE UNION {{<<x>> \o p : p \in Perms(S \ {x})} : x \in S}

IsPrefix(p, q) == Len(p) <= Len(q) /\ SubSeq(q, 1, Len(p)) = p

-----------------------------------------------------------------------------
(* Program constants *)

RELEASE_DATA_FILE_PATH == <<".", "release", "release_data.json">>

root_directories == << <<".", "contracts">>, <<".", "src">> >>

directories_to_exclude ==
    { <<"contracts", ".cache">>, <<"contracts", "interfaces">>,
      <<"contracts", "test">>, <<"contracts", "Mocks">>,
      <<"src", ".cache">>, <<"src", "interfaces">>,
      <<"src", "test">>, <<"src", "mocks">> }

MarkerFiles == {"ape-config.yaml", "ape-config.yml"}

\* line 188: sys.exit(1)
UsageExitStatus == 1

-----------------------------------------------------------------------------
(* The artifact resolvers *)

Absent == [kind |-> "absent", has_bytecode |-> FALSE, bytecode |-> "",
           has_abi |-> FALSE, abi |-> <<>>]
Malformed == [kind |-> "malformed", has_bytecode |-> FALSE, bytecode |-> "",
              has_abi |-> FALSE, abi |-> <<>>]

ResolverResult(path, bytecode, abi, error) ==
    [path |-> path, bytecode |-> bytecode, abi |-> abi, error |-> error]

MissingArtifactRaises(path) ==
    ResolverResult(path, PyNone, PyNone, "FileNotFoundError")

\* lines 66-69 and 139-142: the artifact file is not there
MissingArtifact(path) == ResolverResult(path, PyNone, PyNone, "none")

\* os.path.exists(artifact_path)
ArtifactExists(store, path) ==
    path \in DOMAIN store /\ store[path].kind # "absent"

ApeArtifactPath(contract_name) ==
    LET name == Replace(Replace(contract_name, ".sol"), ".vy")
    IN  << <<".">>, <<".build">>, name \o <<".json">> >>

\* lines 80-84: the validation of the extracted bytecode
ApeBytecode(bytecode) ==
    IF Truthy(bytecode) /\ bytecode # PyStr("0x") THEN bytecode ELSE PyNone

get_ape_artifacts(store, contract_name) ==
    LET artifact_path == ApeArtifactPath(contract_name)
    IN  IF ~ArtifactExists(store, artifact_path)
        THEN MissingArtifact(artifact_path)
        ELSE LET artifact == store[artifact_path]
                 bytecode == IF artifact.has_bytecode
                             THEN PyStr(artifact.bytecode) ELSE PyStr("")
                 abi == IF artifact.has_abi
                        THEN PyList(artifact.abi) ELSE PyList(<<>>)
             IN  IF artifact.kind = "malformed"
                 THEN ResolverResult(artifact_path, PyNone, PyNone,
                                     "JSONDecodeError")
                 ELSE ResolverResult(artifact_path, ApeBytecode(bytecode),
                                     abi, "none")

FoundryArtifactPath(contract_name) ==
    LET name == Replace(contract_name, ".sol")
    IN  << <<".">>, <<"out">>, name \o <<".sol">>, name \o <<".json">> >>

get_foundry_artifacts(store, contract_name) ==
    LET artifact_path == FoundryArtifactPath(contract_name)
    IN  IF ~ArtifactExists(store, artifact_path)
        THEN MissingArtifact(artifact_path)
        ELSE LET artifact == store[artifact_path]
                 bytecode == IF artifact.has_bytecode
                             THEN PyStr(artifact.bytecode) ELSE PyNone
                 abi == IF artifact.has_abi
                        THEN PyList(artifact.abi) ELSE PyList(<<>>)
             IN  IF artifact.kind = "malformed"
                 THEN ResolverResult(artifact_path, PyNone, PyNone,
                                     "JSONDecodeError")
                 ELSE IF bytecode = PyStr("0x")
                 THEN ResolverResult(artifact_path, PyNone, PyNone, "none")
                 ELSE ResolverResult(artifact_path, bytecode, abi, "none")

detect_project_type(present) ==
    IF "ape-config.yaml" \in present \/ "ape-config.yml" \in present
    THEN "ape" ELSE "foundry"

-----------------------------------------------------------------------------
(* The manifest *)

EmptyData == [releases |-> <<>>]

NewData(release, now) ==
    [releases |-> << [label |-> release, release_timestamp |-> now,
                      contracts |-> <<>>] >>]

Entry(key, bytecode, abi) == [key |-> key, bytecode |-> bytecode, abi |-> abi]

Keys(contracts) == {contracts[i].key : i \in 1..Len(contracts)}

DictSetAppend(contracts, key, bytecode, abi) ==
    Append(contracts, Entry(key, bytecode, abi))

\* d[key] = value on a Python dict, kept as the sequence of its items:
\* an existing key keeps its place and takes the new value
DictSet(contracts, key, bytecode, abi) ==
    IF key \in Keys(contracts)
    THEN [i \in 1..Len(contracts) |->
            IF contracts[i].key = key THEN Entry(key, bytecode, abi)
            ELSE contracts[i]]
    ELSE Append(contracts, Entry(key, bytecode, abi))

IncludedBytecodeOnly(bytecode, abi) == Truthy(bytecode)

\* lines 41-45: the artifact enters the manifest when both parts are truthy
Included(bytecode, abi) == Truthy(bytecode) /\ Truthy(abi)

Token(k, s, n, l) == [k |-> k, s |-> s, n |-> n, l |-> l]

RECURSIVE DumpContracts(_)
DumpContracts(contracts) ==
    IF contracts = <<>> THEN <<>>
    ELSE LET c == Head(contracts)
         IN  << Token("key", "", 0, c.key),
                Token("bytecode", c.bytecode.s, 0, <<>>),
                Token("abi", "", 0, c.abi.l) >>
             \o DumpContracts(Tail(contracts))

RECURSIVE DumpReleases(_)
DumpReleases(releases) ==
    IF releases = <<>> THEN <<>>
    ELSE LET r == Head(releases)
         IN  << Token("release", r.label, 0, <<>>),
                Token("release_timestamp", "", r.release_timestamp, <<>>),
                Token("contracts", "", Len(r.contracts), <<>>) >>
             \o DumpContracts(r.contracts)
             \o DumpReleases(Tail(releases))

\* json.dumps(data, indent=2): the document as its sequence of members
JsonDumps(d) == <<Token("releases", "", Len(d.releases), <<>>)>>
                \o DumpReleases(d.releases)

NoFile == [exists |-> FALSE, text |-> <<>>]
FileWith(text) == [exists |-> TRUE, text |-> text]

WriteFileAppend(old, text) == FileWith(old.text \o text)

\* lines 176-178: open(file_path, 'w') and write
WriteFile(old, text) == FileWith(text)

-----------------------------------------------------------------------------
(* The contract file locator *)

\* line 124
IsContractFile(file) == EndsWith(file, ".sol") \/ EndsWith(file, ".vy")

KeepDirAlways(normalized_root, d) == TRUE

\* line 121: the directories os.walk goes on to descend into
KeepDir(normalized_root, d) ==
    NormPath(normalized_root \o <<d>>) \notin directories_to_exclude

\* os.walk's listing of one directory
SubDirs(tree_dirs, d) ==
    {x[Len(x)] : x \in {y \in tree_dirs : Len(y) = Len(d) + 1 /\ IsPrefix(d, y)}}
FilesIn(tree_files, d) == {f.name : f \in {g \in tree_files : g.dir = d}}

-----------------------------------------------------------------------------
(* The inputs of a run *)

Argvs == { <<"release.py">>, <<"release.py", "v3.0.3">> }

Vault_sol == <<"Vault", ".sol">>
Vault_vy == <<"Vault", ".vy">>
Token_vy == <<"Token", ".vy">>
VaultMock_vy == <<"VaultMock", ".vy">>
Vault_sol_bak == <<"Vault", ".sol", ".bak">>

SourceNames == {Vault_sol, Token_vy}
SourceDirs == { <<"src">>, <<"contracts">> }

LocateNames == {Vault_vy, VaultMock_vy, Vault_sol, Vault_sol_bak}
LocateDirs == { <<"src">>, <<"src", "test">>, <<"src", "core">>,
                <<"src", "core", "test">>, <<"contracts">>,
                <<"contracts", "Mocks">>, <<"contracts", "mocks">>,
                <<"lib">> }

\* a directory exists together with the directories above it
Ancestors(d) == {SubSeq(d, 1, n) : n \in 1..Len(d)}
DirsOf(tree_files, extra) ==
    UNION {Ancestors(f.dir) : f \in tree_files} \cup extra

\* the subsets of S with at most max elements
RECURSIVE SubsetsUpTo(_, _)
SubsetsUpTo(S, max) ==
    IF max = 0 THEN {{}}
    ELSE LET smaller == SubsetsUpTo(S, max - 1)
         IN  smaller \cup {T \cup {x} : T \in smaller, x \in S}

FileSets(inDirs, names, max) ==
    SubsetsUpTo([dir : inDirs, name : names], max)

BytecodeFields == {"0x", "0x6080", ""}
AbiFields == { <<>>, <<"fn">> }
\* an artifact with every bytecode and an ABI, one with a good bytecode and an
\* empty ABI, one with neither field, and a file that is not JSON
ArtifactContents ==
    {c \in [kind : {"json"}, has_bytecode : {TRUE}, bytecode : BytecodeFields,
            has_abi : {TRUE}, abi : AbiFields] :
        c.abi # <<>> \/ c.bytecode = "0x6080"}
    \cup [kind : {"json"}, has_bytecode : {FALSE}, bytecode : {""},
          has_abi : {FALSE}, abi : {<<>>}]
    \cup {Malformed}

ArtifactPaths ==
    {ApeArtifactPath(n) : n \in SourceNames}
    \cup {FoundryArtifactPath(n) : n \in SourceNames}

ArtifactStores ==
    UNION {{[p \in ArtifactPaths |-> IF p \in P THEN c[p] ELSE Absent] :
               c \in [P -> ArtifactContents]} :
           P \in SubsetsUpTo(ArtifactPaths, MaxArtifacts)}

\* a manifest left at the output path by an earlier run
OldManifest ==
    JsonDumps([releases |-> << [label |-> "v3.0.2", release_timestamp |-> 0,
        contracts |-> << Entry(<<"Old", ".sol">>, PyStr("0x6001"),
                               PyList(<<"old">>)) >>] >>])

OutputStates ==
    { [dir |-> "absent", file |-> NoFile], [dir |-> "file", file |-> NoFile],
      [dir |-> "dir", file |-> NoFile],
      [dir |-> "dir", file |-> FileWith(OldManifest)] }

-----------------------------------------------------------------------------
(* The script *)

InitProgram ==
    /\ roots_todo = <<>>
    /\ walk_stack = <<>>
    /\ contracts_files = <<>>
    /\ project_type = "unset"
    /\ idx = 0
    /\ data = EmptyData
    /\ results = <<>>
    /\ writes = 0
    /\ exit_status = -1
    /\ commands_run = <<>>

Init ==
    /\ argv \in Argvs
    /\ markers \in SUBSET MarkerFiles
    /\ files \in FileSets(SourceDirs, SourceNames, MaxContracts)
    /\ dirs = DirsOf(files, {})
    /\ artifacts \in ArtifactStores
    /\ \E o \in OutputStates : release_dir = o.dir /\ out_file = o.file
    /\ clock \in 1..MaxTime
    /\ pc = "start"
    /\ InitProgram

\* lines 183-185: len(sys.argv) > 1
HasTagArg(args) == Len(args) > 1

\* lines 182-185, 18-31: main(tag_name) and the start of build_release_data
MainRun ==
    /\ pc = "start"
    /\ HasTagArg(argv)
    /\ data' = NewData(argv[2], clock)
    /\ contracts_files' = <<>>
    /\ roots_todo' = root_directories
    /\ walk_stack' = <<>>
    /\ pc' = "locate"
    /\ UNCHANGED <<argv, release_dir, out_file, project_type, idx, results,
                   writes, exit_status, commands_run>>
    /\ UNCHANGED fsVars

\* the message is printed and the script ends without sys.exit(1)
MainUsageNoExit ==
    /\ pc = "start"
    /\ ~HasTagArg(argv)
    /\ pc' = "exited"
    /\ exit_status' = 0
    /\ UNCHANGED <<argv, release_dir, out_file, roots_todo, walk_stack,
                   contracts_files, project_type, idx, data, results, writes,
                   commands_run>>
    /\ UNCHANGED fsVars

\* lines 186-188: the usage error
MainUsage ==
    /\ pc = "start"
    /\ ~HasTagArg(argv)
    /\ pc' = "exited"
    /\ exit_status' = UsageExitStatus
    /\ UNCHANGED <<argv, release_dir, out_file, roots_todo, walk_stack,
                   contracts_files, project_type, idx, data, results, writes,
                   commands_run>>
    /\ UNCHANGED fsVars

\* lines 112-115: the next root directory
LocateRoot ==
    /\ pc = "locate"
    /\ walk_stack = <<>>
    /\ roots_todo # <<>>
    /\ walk_stack' = IF NormPath(Head(roots_todo)) \in dirs
                     THEN <<Head(roots_todo)>> ELSE <<>>
    /\ roots_todo' = Tail(roots_todo)
    /\ UNCHANGED <<argv, release_dir, out_file, pc, contracts_files,
                   project_type, idx, data, results, writes, exit_status,
                   commands_run>>
    /\ UNCHANGED fsVars

\* lines 117-125: one directory of os.walk, top down
WalkDir ==
    /\ pc = "locate"
    /\ walk_stack # <<>>
    /\ LET root == Head(walk_stack)
           normalized_root == NormPath(root)
           kept == {d \in SubDirs(dirs, normalized_root) :
                       KeepDir(normalized_root, d)}
       IN  \E listing \in Perms(FilesIn(files, normalized_root)),
              descent \in Perms(kept) :
             /\ contracts_files' =
                    contracts_files \o SelectSeq(listing, IsContractFile)
             /\ walk_stack' =
                    [i \in 1..Len(descent) |-> root \o <<descent[i]>>]
                    \o Tail(walk_stack)
    /\ UNCHANGED <<argv, release_dir, out_file, pc, roots_todo, project_type,
                   idx, data, results, writes, exit_status, commands_run>>
    /\ UNCHANGED fsVars

\* lines 127, 32: get_contract_files returns; detect_project_type()
Detect ==
    /\ pc = "locate"
    /\ walk_stack = <<>>
    /\ roots_todo = <<>>
    /\ project_type' = detect_project_type(markers)
    /\ idx' = 1
    /\ pc' = "resolve"
    /\ UNCHANGED <<argv, release_dir, out_file, roots_todo, walk_stack,
                   contracts_files, data, results, writes, exit_status,
                   commands_run>>
    /\ UNCHANGED fsVars

\* lines 35-39: the resolver of the project type
Resolver(type, store, contract_file) ==
    IF type = "foundry" THEN get_foundry_artifacts(store, contract_file)
    ELSE get_ape_artifacts(store, contract_file)

\* lines 34-46: one iteration of the loop over contracts_files
Resolve ==
    /\ pc = "resolve"
    /\ idx <= Len(contracts_files)
    /\ LET contract_file == contracts_files[idx]
           r == Resolver(project_type, artifacts, contract_file)
           release == data.releases[1]
       IN  /\ results' = Append(results, r)
           /\ IF r.error # "none"
              THEN /\ pc' = "aborted"
                   /\ exit_status' = 1
                   /\ UNCHANGED <<data, idx>>
              ELSE /\ data' =
                        IF Included(r.bytecode, r.abi)
                        THEN [releases |-> << [release EXCEPT !.contracts =
                                 DictSet(release.contracts, contract_file,
                                         r.bytecode, r.abi)] >>]
                        ELSE data
                   /\ idx' = idx + 1
                   /\ UNCHANGED <<pc, exit_status>>
    /\ UNCHANGED <<argv, release_dir, out_file, roots_todo, walk_stack,
                   contracts_files, project_type, writes, commands_run>>
    /\ UNCHANGED fsVars

\* lines 48-53, 167-179: json.dumps and save_to_file
Save ==
    /\ pc = "resolve"
    /\ idx > Len(contracts_files)
    /\ LET json_data == JsonDumps(data)
           made == IF release_dir = "absent" THEN "dir" ELSE release_dir
       IN  /\ release_dir' = made
           /\ IF made = "dir"
              THEN /\ out_file' = WriteFile(out_file, json_data)
                   /\ writes' = writes + 1
                   /\ pc' = "done"
                   /\ exit_status' = 0
              ELSE /\ pc' = "aborted"
                   /\ exit_status' = 1
                   /\ UNCHANGED <<out_file, writes>>
    /\ UNCHANGED <<argv, roots_todo, walk_stack, contracts_files,
                   project_type, idx, data, results, commands_run>>
    /\ UNCHANGED fsVars

Next ==
    \/ MainRun
    \/ MainUsage
    \/ LocateRoot
    \/ WalkDir
    \/ Detect
    \/ Resolve
    \/ Save

Spec == Init /\ [][Next]_vars

(* The locator on its own: get_contract_files() over a richer tree *)
InitLocate ==
    /\ argv = <<"release.py", "v3.0.3">>
    /\ markers = {}
    /\ files \in FileSets(LocateDirs, LocateNames, MaxFiles)
    /\ \E extra \in SUBSET { <<"src">>, <<"contracts">> } :
          dirs = DirsOf(files, extra)
    /\ artifacts = [p \in ArtifactPaths |-> Absent]
    /\ release_dir = "absent"
    /\ out_file = NoFile
    /\ clock = 1
    /\ pc = "start"
    /\ InitProgram

NextLocate ==
    \/ MainRun
    \/ LocateRoot
    \/ WalkDir
    \/ Detect

SpecLocate == InitLocate /\ [][NextLocate]_vars

-----------------------------------------------------------------------------
(* Properties *)

Contracts == IF data.releases = <<>> THEN <<>> ELSE data.releases[1].contracts

Resolved == 1..Len(results)

\* the members of the written document, read back
WrittenTokens(k) ==
    {out_file.text[i] : i \in {j \in 1..Len(out_file.text) :
                                  out_file.text[j].k = k}}
WrittenKeys == {tok.l : tok \in WrittenTokens("key")}
WrittenCount(name) ==
    Cardinality({j \in 1..Len(out_file.text) :
                    out_file.text[j].k = "key" /\ out_file.text[j].l = name})

ValidPair(r) ==
    /\ r.bytecode.t = "str" /\ r.bytecode.s \notin {"", "0x"}
    /\ r.abi.t = "list" /\ r.abi.l # <<>>

\* the only ways a run aborts: an artifact file that is not JSON, or an
\* output directory path that is taken by a file
AbortIsNotFromMissing ==
    pc = "aborted" =>
       \/ /\ Len(results) = Len(contracts_files)
          /\ \A i \in Resolved : results[i].error = "none"
          /\ release_dir = "file"
       \/ /\ results # <<>>
          /\ results[Len(results)].error = "JSONDecodeError"
          /\ ArtifactExists(artifacts, results[Len(results)].path)

\* C1: a file name is a key of the contracts mapping, during the run and in
\* the written manifest, only if the resolver returned for it a bytecode that
\* is a non-empty string other than "0x" and a non-empty ABI list.
C1_IncludedOnlyIfValid ==
    /\ \A e \in 1..Len(Contracts) :
          \E i \in Resolved :
             /\ contracts_files[i] = Contracts[e].key
             /\ results[i].bytecode = Contracts[e].bytecode
             /\ results[i].abi = Contracts[e].abi
             /\ ValidPair(results[i])
    /\ pc = "done" =>
          /\ WrittenKeys = Keys(Contracts)
          /\ \A tok \in WrittenTokens("bytecode") : tok.s \notin {"", "0x"}
          /\ \A tok \in WrittenTokens("abi") : tok.l # <<>>

C1_Witness ==
    /\ pc = "done"
    /\ Contracts # <<>>
    /\ \E i \in Resolved :
          /\ Truthy(results[i].bytecode)
          /\ ~Truthy(results[i].abi)
          /\ contracts_files[i] \notin WrittenKeys

\* C2 (as claimed): whenever the resolver of either project type reads an
\* existing artifact whose bytecode field is "0x", it returns None for the
\* bytecode and nothing (None, or at least no entry) for the ABI.
C2_PlaceholderGivesAbsentBoth ==
    \A i \in Resolved :
       LET a == artifacts[results[i].path]
       IN  (a.kind = "json" /\ a.has_bytecode /\ a.bytecode = "0x")
           => results[i].bytecode = PyNone /\ ~Truthy(results[i].abi)

\* C3: a missing artifact file makes the resolver return (None, None) without
\* raising; the loop goes on, every located contract is resolved, the manifest
\* is written, and the file name is not a key of the written manifest.
C3_MissingArtifactSkipped ==
    /\ \A i \in Resolved :
          ~ArtifactExists(artifacts, results[i].path) =>
             /\ results[i].bytecode = PyNone
             /\ results[i].abi = PyNone
             /\ results[i].error = "none"
             /\ idx > i
             /\ pc = "done" => contracts_files[i] \notin WrittenKeys
    /\ AbortIsNotFromMissing
    /\ pc = "done" =>
          /\ Len(results) = Len(contracts_files)
          /\ writes = 1
          /\ out_file.exists

C3_Witness ==
    /\ pc = "done"
    /\ \E i \in Resolved, j \in Resolved :
          /\ i < j
          /\ ~ArtifactExists(artifacts, results[i].path)
          /\ contracts_files[i] \notin WrittenKeys
          /\ contracts_files[j] \in WrittenKeys

\* C4 (as claimed): in a foundry run, resolving a located .vy file raises, the
\* run aborts there and no manifest is written.
C4_VyUnderFoundryAborts ==
    project_type = "foundry" =>
       /\ \A i \in Resolved :
             EndsWith(contracts_files[i], ".vy") =>
                results[i].error # "none" /\ pc = "aborted"
       /\ (\E i \in 1..Len(contracts_files) :
              EndsWith(contracts_files[i], ".vy")) =>
             pc # "done" /\ writes = 0

\* C5: get_contract_files returns exactly the base names of the .sol and .vy
\* files that lie under an existing root and under no directory of the
\* exclusion list; with src/Vault.vy and src/test/VaultMock.vy it returns
\* ["Vault.vy"].
C5_LocatorExact ==
    pc = "resolve" =>
       /\ {contracts_files[i] : i \in 1..Len(contracts_files)} =
             {f.name : f \in
                {g \in files :
                    /\ g.name[Len(g.name)] \in {".sol", ".vy"}
                    /\ g.dir[1] \in {"contracts", "src"}
                    /\ \A n \in 1..Len(g.dir) :
                          SubSeq(g.dir, 1, n) \notin directories_to_exclude}}
       /\ files = { [dir |-> <<"src">>, name |-> Vault_vy],
                    [dir |-> <<"src", "test">>, name |-> VaultMock_vy] }
             => contracts_files = <<Vault_vy>>

C5_Witness ==
    /\ pc = "resolve"
    /\ files = { [dir |-> <<"src">>, name |-> Vault_vy],
                 [dir |-> <<"src", "test">>, name |-> VaultMock_vy] }
    /\ <<"contracts">> \notin dirs
    /\ contracts_files = <<Vault_vy>>

\* C6 (as claimed): in a foundry run the build command has been invoked
\* before any artifact is resolved; in an ape run it is never invoked.
C6_BuildBeforeResolve ==
    /\ (project_type = "foundry" /\ results # <<>>) => commands_run # <<>>
    /\ project_type = "ape" => commands_run = <<>>

\* the artifact path of each convention as the specification gives it
ConventionPath(type, file) ==
    LET name == SubSeq(file, 1, Len(file) - 1)
    IN  IF type = "ape"
        THEN << <<".">>, <<".build">>, name \o <<".json">> >>
        ELSE << <<".">>, <<"out">>, file, name \o <<".json">> >>

\* C7 (as claimed): the project type is decided once; with an ape marker
\* every contract is read from ./.build/<name>.json, otherwise every contract
\* is read from ./out/<name>.<src-ext>/<name>.json.
C7_ConventionPaths ==
    /\ pc \in {"resolve", "done", "aborted"} =>
          project_type = (IF markers # {} THEN "ape" ELSE "foundry")
    /\ \A i \in Resolved :
          results[i].path = ConventionPath(project_type, contracts_files[i])

\* C8: a run that completes has written the output file exactly once, after
\* every located contract was resolved, the parent directory exists, and the
\* file holds exactly the manifest of this run: one release, its label and
\* timestamp and its contracts, nothing of an earlier manifest.
C8_WrittenOnceAndOverwritten ==
    /\ writes <= 1
    /\ writes = 1 => pc = "done"
    /\ pc = "done" =>
          /\ writes = 1
          /\ Len(results) = Len(contracts_files)
          /\ release_dir = "dir"
          /\ out_file = FileWith(JsonDumps(data))
          /\ Len(data.releases) = 1
          /\ WrittenTokens("release") =
                {Token("release", argv[2], 0, <<>>)}
          /\ WrittenTokens("release_timestamp") =
                {Token("release_timestamp", "", clock, <<>>)}
          /\ Cardinality({j \in 1..Len(out_file.text) :
                             out_file.text[j].k = "release"}) = 1
          /\ WrittenKeys \subseteq
                {contracts_files[i] : i \in 1..Len(contracts_files)}

C8_Witness ==
    /\ pc = "done"
    /\ writes = 1
    /\ release_dir = "dir"
    /\ Len(Contracts) = 2
    /\ out_file = FileWith(JsonDumps(data))

\* C9: without a release-label argument the run ends with exit status 1 and
\* no step of the pipeline runs: nothing is scanned, no artifact is read and
\* the output file and its directory stay as they were.
C9_NoArgumentNoRun ==
    /\ [](Len(argv) = 1 =>
            /\ pc \in {"start", "exited"}
            /\ pc = "exited" <=> exit_status = 1
            /\ pc = "start" <=> exit_status = -1
            /\ roots_todo = <<>> /\ walk_stack = <<>>
            /\ contracts_files = <<>> /\ project_type = "unset"
            /\ results = <<>> /\ data = EmptyData /\ writes = 0)
    /\ [][Len(argv) = 1 => UNCHANGED <<out_file, release_dir>>]_vars

C9_Witness ==
    /\ Len(argv) = 1
    /\ pc = "exited"
    /\ exit_status = 1
    /\ out_file = FileWith(OldManifest)

Occurrences(seq, x) == Cardinality({i \in 1..Len(seq) : seq[i] = x})
LastIndex(seq, x) ==
    CHOOSE i \in 1..Len(seq) :
       seq[i] = x /\ \A j \in 1..Len(seq) : seq[j] = x => j <= i
Duplicated(name) == Cardinality({f \in files : f.name = name}) = 2

\* C10 (as claimed): a base name found in two directories is returned twice
\* and the written manifest has exactly one entry for it.
C10_DuplicateHasOneEntry ==
    \A name \in SourceNames :
       (Duplicated(name) /\ pc = "done") =>
          /\ Occurrences(contracts_files, name) = 2
          /\ WrittenCount(name) = 1

\* C10 (amended): a base name found in two directories is returned twice; the
\* duplicate raises no error; the written manifest has exactly one entry for
\* it when the resolution performed last for it returned a non-empty bytecode
\* and a non-empty ABI, with that resolution's artifact as its value, and no
\* entry for it otherwise.
C10_DuplicateLastWins ==
    \A name \in SourceNames :
       Duplicated(name) =>
          /\ pc \in {"resolve", "done", "aborted"} =>
                Occurrences(contracts_files, name) = 2
          /\ AbortIsNotFromMissing
          /\ pc = "done" =>
                LET r == results[LastIndex(contracts_files, name)]
                IN  IF Included(r.bytecode, r.abi)
                    THEN /\ WrittenCount(name) = 1
                         /\ Occurrences(Contracts,
                               Entry(name, r.bytecode, r.abi)) = 1
                         /\ Len(SelectSeq(Contracts,
                               LAMBDA e : e.key = name)) = 1
                    ELSE WrittenCount(name) = 0

C10_Witness ==
    /\ pc = "done"
    /\ \E name \in SourceNames :
          /\ Duplicated(name)
          /\ Occurrences(contracts_files, name) = 2
          /\ WrittenCount(name) = 1

====
